---- MODULE Spec2Model ----
(***************************************************************************)
(* NotiGenie (cloud_functions): conversation memory (FirestoreAdapter),    *)
(* the request orchestrator (ProcessMessageUseCase.execute) and its two    *)
(* entry paths (main_logic, LineController).                                *)
(***************************************************************************)
EXTENDS Integers, Sequences, FiniteSets, TLC

(***************************************************************************)
(* Bounds of the model.                                                     *)
(***************************************************************************)
MaxTime == 7
MaxCalls == 3
MaxCfgLen == 3
NumWriters == 6
MaxSelected == 2
MaxOps == 2
MaxProps == 1
MaxArgProps == 2
MaxPasses == 2
MaxConds == 2

(***************************************************************************)
(* Program constants.                                                       *)
(***************************************************************************)
SESSION_HISTORY_LIMIT_MINUTES == 5
SESSION_MAX_HISTORY_LENGTH == 40
MAX_ATTEMPTS == 5

NoTimestamp == -1

VARIABLES
    maxHistoryLength,  \* configured SESSION_MAX_HISTORY_LENGTH of this process
    store,             \* the session document of one session id
    now,               \* the clock, in minutes
    calls,             \* number of add_interaction calls made so far
    addedAt,           \* call number -> minute of the call (NoTimestamp = not stored)
    lastOp,            \* the operation that produced this state
    readResult,        \* what the last get_recent_history returned
    readLimit,         \* the limit_minutes the last get_recent_history was given
    version,           \* update counter of the session document
    txn,               \* writer -> state of its add_interaction call
    registry,          \* keys of db_schemas (the loaded Schema Registry)
    path,              \* entry path of the request: "api" or "line"
    ready,             \* the composition root built process_message_use_case
    lpc,               \* position of the entry handler
    epc,               \* position of ProcessMessageUseCase.execute
    history,           \* the history list execute read at its start and passes on
    selected,          \* selected_db_names
    dbIndex,           \* index in selected_db_names of the database in work
    tasks,             \* the tasks of the batch in work
    allToolResults,    \* all_tool_results
    synthCalls,        \* schemas given to generate_tool_calls by this execute
    requested,         \* what generate_tool_calls returned, one batch per call
    toolRuns,          \* executor operations started by this execute
    composeCalls,      \* result lists given to generate_response by this execute
    addCalls,          \* add_interaction calls made by this execute
    savedWith,         \* the arguments of those add_interaction calls
    failedStage,       \* the stage of this execute that raised, or "none"
    finalResponse,     \* what this execute returned, or NoText
    responseText,      \* response.text of the LLM call of generate_response, or NoText
    cancelled,         \* the wait_for deadline cancelled the first execute
    opsBeforeCancel,   \* the cancelled execute had started an executor operation
    delivered,         \* what was sent to the user or returned to the API caller
    storeAtStart,      \* the session document when the request arrived
    notionClient,      \* NotionAdapter.client is set (NOTION_API_KEY was given)
    nCall,             \* the executor operation called last, with its arguments
    nResult,           \* what that call did: its outcome and its remote calls
    fmtDb,             \* database_name given to _format_properties_for_api
    fmtProps,          \* the property map, before and after formatting
    fmtPasses          \* number of times it has been formatted

memVars == <<maxHistoryLength, store, now, calls, addedAt, lastOp, readResult, readLimit>>
txnVars == <<version, txn>>
execVars == <<history, selected, dbIndex, tasks, allToolResults, synthCalls, toolRuns,
              composeCalls, addCalls, savedWith, requested, failedStage, finalResponse,
              responseText>>
adapterVars == <<notionClient, nCall, nResult, fmtDb, fmtProps, fmtPasses>>
orchVars == <<registry, path, ready, lpc, epc, execVars, cancelled, opsBeforeCancel,
              delivered, storeAtStart, adapterVars>>
vars == <<memVars, txnVars, orchVars>>

(***************************************************************************)
(* Turns and documents.                                                     *)
(***************************************************************************)
UserTurn(user_message) == [role |-> "user", parts |-> user_message]
ModelTurn(model_response) == [role |-> "model", parts |-> model_response]
JunkItem == [text |-> "junk"]

UserMessage(n) == <<"q", n>>
ModelResponse(n) == <<"a", n>>

AbsentDoc == [exists |-> FALSE, history |-> <<>>, updated_at |-> NoTimestamp]

\* isinstance(item, dict) and 'role' in item and 'parts' in item
IsValidItem(item) == "role" \in DOMAIN item /\ "parts" \in DOMAIN item

\* Python's seq[start:] for any integer start
PySliceFrom(seq, start) ==
    LET n == Len(seq)
        lo == IF start < 0
              THEN (IF n + start < 0 THEN 0 ELSE n + start)
              ELSE (IF start > n THEN n ELSE start)
    IN SubSeq(seq, lo + 1, n)

(***************************************************************************)
(* FirestoreAdapter.get_recent_history                                      *)
(***************************************************************************)
\* variant: the age in minutes is compared with the limit in seconds
get_recent_history_Minutes(doc, limit_minutes, t) ==
    IF ~doc.exists THEN <<>>
    ELSE IF doc.updated_at = NoTimestamp THEN <<>>
    ELSE IF (t - doc.updated_at) > limit_minutes * 60 THEN <<>>
    ELSE SelectSeq(doc.history, IsValidItem)

\* variant: a document without a timestamp is treated as live
get_recent_history_IgnoresMissingTimestamp(doc, limit_minutes, t) ==
    IF ~doc.exists THEN <<>>
    ELSE IF doc.updated_at # NoTimestamp /\ (t - doc.updated_at) * 60 > limit_minutes * 60
    THEN <<>>
    ELSE SelectSeq(doc.history, IsValidItem)

get_recent_history(doc, limit_minutes, t) ==
    IF ~doc.exists THEN <<>>
    ELSE IF doc.updated_at = NoTimestamp THEN <<>>
    ELSE IF (t - doc.updated_at) * 60 > limit_minutes * 60 THEN <<>>
    ELSE SelectSeq(doc.history, IsValidItem)

\* the read performs no write on the document
StoreAfterRead(doc, limit_minutes, t) == doc

(***************************************************************************)
(* FirestoreAdapter.add_interaction: the transaction body                   *)
(***************************************************************************)
\* variant: a window exactly as old as the limit counts as expired
current_history_Strict(doc, t) ==
    IF doc.exists /\ doc.updated_at # NoTimestamp
       /\ (t - doc.updated_at) * 60 < SESSION_HISTORY_LIMIT_MINUTES * 60
    THEN SelectSeq(doc.history, IsValidItem)
    ELSE <<>>

current_history(doc, t) ==
    IF doc.exists /\ doc.updated_at # NoTimestamp
       /\ (t - doc.updated_at) * 60 <= SESSION_HISTORY_LIMIT_MINUTES * 60
    THEN SelectSeq(doc.history, IsValidItem)
    ELSE <<>>

\* variant: the oldest entries are kept instead of the newest
TrimHistory_KeepOldest(new_history, max_history_length) ==
    IF Len(new_history) > max_history_length
    THEN SubSeq(new_history, 1, max_history_length)
    ELSE new_history

TrimHistory(new_history, max_history_length) ==
    IF Len(new_history) > max_history_length
    THEN PySliceFrom(new_history, 0 - max_history_length)
    ELSE new_history

\* variant: only the user turn is written
update_in_transaction_UserOnly(doc, t, user_message, model_response, max_history_length) ==
    [exists |-> TRUE,
     history |-> TrimHistory(current_history(doc, t) \o <<UserTurn(user_message)>>,
                             max_history_length),
     updated_at |-> t]

update_in_transaction(doc, t, user_message, model_response, max_history_length) ==
    LET new_history == current_history(doc, t)
                       \o <<UserTurn(user_message), ModelTurn(model_response)>>
    IN [exists |-> TRUE,
        history |-> TrimHistory(new_history, max_history_length),
        updated_at |-> t]

(***************************************************************************)
(* The request pipeline at rest (no request in work).                       *)
(***************************************************************************)
NoText == <<"none", 0>>

DbNames == {"todo_list", "diary"}

ExecIdle ==
    /\ history = <<>>
    /\ selected = <<>>
    /\ dbIndex = 0
    /\ tasks = <<>>
    /\ allToolResults = <<>>
    /\ synthCalls = <<>>
    /\ toolRuns = 0
    /\ composeCalls = <<>>
    /\ addCalls = 0
    /\ savedWith = <<>>
    /\ requested = <<>>
    /\ failedStage = "none"
    /\ finalResponse = NoText
    /\ responseText = NoText

NoCall == [op |-> "none"]
NoResult == [outcome |-> "none"]

AdapterIdle ==
    /\ notionClient = TRUE
    /\ nCall = NoCall
    /\ nResult = NoResult
    /\ fmtDb = "none"
    /\ fmtProps = <<>>
    /\ fmtPasses = 0

OrchIdle ==
    /\ AdapterIdle
    /\ registry = DbNames
    /\ path = "api"
    /\ ready = TRUE
    /\ lpc = "start"
    /\ epc = "idle"
    /\ ExecIdle
    /\ cancelled = FALSE
    /\ opsBeforeCancel = FALSE
    /\ delivered = <<>>
    /\ storeAtStart = AbsentDoc

(***************************************************************************)
(* Concurrent add_interaction calls on one session (SpecTxn).              *)
(***************************************************************************)
Writers == 1 .. NumWriters

IdleTxn == [pc |-> "idle", attempts |-> 0, snap |-> AbsentDoc, snapVersion |-> 0]

PriorWindow == <<UserTurn(UserMessage(0)), ModelTurn(ModelResponse(0))>>

InitTxn ==
    /\ maxHistoryLength = SESSION_MAX_HISTORY_LENGTH
    /\ store = [exists |-> TRUE, history |-> PriorWindow, updated_at |-> 0]
    /\ now = 0
    /\ calls = 0
    /\ addedAt = [n \in 1 .. MaxCalls |-> NoTimestamp]
    /\ lastOp = "init"
    /\ readResult = <<>>
    /\ readLimit = 0
    /\ version = 0
    /\ txn = [w \in Writers |-> IdleTxn]
    /\ OrchIdle

\* doc_ref.get(transaction=transaction): one attempt of the transaction starts.
\* The calls are numbered in the order of their arrival.
TxnRead(w) ==
    /\ txn[w].pc \in {"idle", "retry"}
    /\ (txn[w].pc = "idle" /\ w > 1) => txn[w - 1].pc # "idle"
    /\ txn' = [txn EXCEPT ![w] = [pc |-> "read", attempts |-> @.attempts + 1,
                                  snap |-> store, snapVersion |-> version]]
    /\ UNCHANGED <<memVars, version, orchVars>>

\* transaction.set + commit: succeeds when the document was not written since the read
TxnCommit(w) ==
    /\ txn[w].pc = "read"
    /\ txn[w].snapVersion = version
    /\ store' = update_in_transaction(txn[w].snap, now, UserMessage(w), ModelResponse(w),
                                      maxHistoryLength)
    /\ version' = version + 1
    /\ txn' = [txn EXCEPT ![w].pc = "done"]
    /\ lastOp' = "add"
    /\ UNCHANGED <<maxHistoryLength, now, calls, addedAt, readResult, readLimit, orchVars>>

\* the commit is aborted by a conflicting write: the decorator runs the body again
TxnAbortRetry(w) ==
    /\ txn[w].pc = "read"
    /\ txn[w].snapVersion # version
    /\ txn[w].attempts < MAX_ATTEMPTS
    /\ txn' = [txn EXCEPT ![w].pc = "retry"]
    /\ UNCHANGED <<memVars, version, orchVars>>

\* the last attempt is aborted: the decorator raises, add_interaction logs and returns
TxnGiveUp(w) ==
    /\ txn[w].pc = "read"
    /\ txn[w].snapVersion # version
    /\ txn[w].attempts >= MAX_ATTEMPTS
    /\ txn' = [txn EXCEPT ![w].pc = "failed"]
    /\ UNCHANGED <<memVars, version, orchVars>>

NextTxn ==
    \E w \in Writers : TxnRead(w) \/ TxnCommit(w) \/ TxnAbortRetry(w) \/ TxnGiveUp(w)

SpecTxn == InitTxn /\ [][NextTxn]_vars

(***************************************************************************)
(* One session used by sequential calls while time passes (SpecMem).       *)
(***************************************************************************)
OlderWindow == <<UserTurn(UserMessage(0 - 1)), ModelTurn(ModelResponse(0 - 1))>>

InitHistories ==
    { <<>>,
      PriorWindow,
      <<JunkItem>>,
      <<UserTurn(UserMessage(0)), JunkItem, ModelTurn(ModelResponse(0))>>,
      OlderWindow \o PriorWindow }

InitDocs ==
    {AbsentDoc} \cup
    { [exists |-> TRUE, history |-> h, updated_at |-> u] :
          h \in InitHistories, u \in {NoTimestamp, 0} }

ReadLimits == {1, SESSION_HISTORY_LIMIT_MINUTES}

InitMem ==
    /\ maxHistoryLength \in 0 .. MaxCfgLen
    /\ store \in InitDocs
    /\ now = 0
    /\ calls = 0
    /\ addedAt = [n \in 1 .. MaxCalls |-> NoTimestamp]
    /\ lastOp = "init"
    /\ readResult = <<>>
    /\ readLimit = 0
    /\ version = 0
    /\ txn = [w \in Writers |-> IdleTxn]
    /\ OrchIdle

Tick ==
    /\ now < MaxTime
    /\ now' = now + 1
    /\ lastOp' = "tick"
    /\ readResult' = <<>>
    /\ readLimit' = 0
    /\ UNCHANGED <<maxHistoryLength, store, calls, addedAt, txnVars, orchVars>>

GetRecentHistory(limit_minutes) ==
    /\ readResult' = get_recent_history(store, limit_minutes, now)
    /\ store' = StoreAfterRead(store, limit_minutes, now)
    /\ readLimit' = limit_minutes
    /\ lastOp' = "read"
    /\ UNCHANGED <<maxHistoryLength, now, calls, addedAt, txnVars, orchVars>>

\* variant: when the read fails the turns read last are returned once more
GetRecentHistoryError_ReturnsLastRead(limit_minutes) ==
    /\ readResult' = readResult
    /\ readLimit' = limit_minutes
    /\ lastOp' = "read_error"
    /\ UNCHANGED <<maxHistoryLength, store, now, calls, addedAt, txnVars, orchVars>>

\* self.db is None, or the read raises: the empty list is returned
GetRecentHistoryError(limit_minutes) ==
    /\ readResult' = <<>>
    /\ readLimit' = limit_minutes
    /\ lastOp' = "read_error"
    /\ UNCHANGED <<maxHistoryLength, store, now, calls, addedAt, txnVars, orchVars>>

\* one add_interaction call with no concurrent writer: the body runs once and commits
AddInteraction ==
    /\ calls < MaxCalls
    /\ calls' = calls + 1
    /\ store' = update_in_transaction(store, now, UserMessage(calls + 1),
                                      ModelResponse(calls + 1), maxHistoryLength)
    /\ addedAt' = [addedAt EXCEPT ![calls + 1] = now]
    /\ version' = version + 1
    /\ lastOp' = "add"
    /\ readResult' = <<>>
    /\ readLimit' = 0
    /\ UNCHANGED <<maxHistoryLength, now, txn, orchVars>>

\* self.db is None, or the transaction raises: logged, nothing is written
AddInteractionError ==
    /\ calls < MaxCalls
    /\ calls' = calls + 1
    /\ lastOp' = "add_error"
    /\ readResult' = <<>>
    /\ readLimit' = 0
    /\ UNCHANGED <<maxHistoryLength, store, now, addedAt, txnVars, orchVars>>

NextMem ==
    \/ Tick
    \/ \E l \in ReadLimits : GetRecentHistory(l)
    \/ \E l \in ReadLimits : GetRecentHistoryError(l)
    \/ AddInteraction
    \/ AddInteractionError

SpecMem == InitMem /\ [][NextMem]_vars

(***************************************************************************)
(* Values the Synthesizer passes to the executor operations (JSON values). *)
(***************************************************************************)
Str(s) == [str |-> s]
Bool(b) == [bool |-> b]
Num(n) == [num |-> n]
List(items) == [list |-> items]
Obj(fields) == [obj |-> fields]
Null == [null |-> TRUE]

IsStr(v) == DOMAIN v = {"str"}
IsDict(v) == DOMAIN v = {"obj"}

HasKey(v, key) == IsDict(v) /\ key \in DOMAIN v.obj

\* bool(value)
Truthy(v) ==
    IF IsStr(v) THEN v.str # ""
    ELSE IF DOMAIN v = {"bool"} THEN v.bool
    ELSE IF DOMAIN v = {"num"} THEN v.num # 0
    ELSE IF DOMAIN v = {"list"} THEN v.list # <<>>
    ELSE IF IsDict(v) THEN DOMAIN v.obj # {}
    ELSE FALSE

\* float(value): the strings that denote a number, booleans and numbers convert
StringNumber == ("5" :> 5)
CanFloat(v) ==
    \/ IsStr(v) /\ v.str \in DOMAIN StringNumber
    \/ DOMAIN v = {"bool"}
    \/ DOMAIN v = {"num"}
ToFloat(v) ==
    IF IsStr(v) THEN StringNumber[v.str]
    ELSE IF DOMAIN v = {"bool"} THEN (IF v.bool THEN 1 ELSE 0)
    ELSE v.num

(***************************************************************************)
(* The Schema Registry given to NotionAdapter (notion_database_mapping).   *)
(***************************************************************************)
NoType == "<none>"

TodoProperties ==
    [Name |-> "title", Memo |-> "rich_text", Tag |-> "select", Tags |-> "multi_select",
     Status |-> "status", Due |-> "date", Done |-> "checkbox", Count |-> "number",
     Link |-> "url"]

DiaryProperties == [Title |-> "title", Done |-> "select"]

\* declared property names, and two names no schema declares
PropertyNames == DOMAIN TodoProperties \cup DOMAIN DiaryProperties \cup {"Other", "Extra"}

\* self.notion_database_mapping[database_name].get("properties", {})
SchemaProperties(database_name) ==
    IF database_name = "todo_list" THEN TodoProperties
    ELSE IF database_name = "diary" THEN DiaryProperties
    ELSE <<>>

\* NotionAdapter._resolve_property_type
resolve_property_type(mapping, database_name, property_name) ==
    IF database_name \notin mapping THEN NoType
    ELSE IF property_name \in DOMAIN SchemaProperties(database_name)
    THEN SchemaProperties(database_name)[property_name]
    ELSE NoType

(***************************************************************************)
(* NotionAdapter._format_properties_for_api                                 *)
(***************************************************************************)
TextContent(value) == List(<<Obj([text |-> Obj([content |-> value])])>>)
NameObject(value) == Obj([name |-> value])
Wrap(key, value) == Obj([k \in {key} |-> value])

\* variant: a value that is already in wire form is wrapped once more
FormatValue_AlwaysWraps(prop_type, value) ==
    IF prop_type = "select" THEN Wrap("select", NameObject(value))
    ELSE IF prop_type = "checkbox" THEN Wrap("checkbox", Bool(Truthy(value)))
    ELSE IF prop_type = "url" THEN Wrap("url", value)
    ELSE IF prop_type = "title" /\ IsStr(value) THEN Wrap("title", TextContent(value))
    ELSE value

\* the wire form of one value of a property of type prop_type
FormatValue(prop_type, value) ==
    IF HasKey(value, prop_type) THEN value
    ELSE IF prop_type = "title"
    THEN (IF IsStr(value) THEN Wrap("title", TextContent(value)) ELSE value)
    ELSE IF prop_type = "select"
    THEN (IF IsStr(value) THEN Wrap("select", NameObject(value)) ELSE value)
    ELSE IF prop_type = "multi_select"
    THEN (IF DOMAIN value = {"list"}
          THEN Wrap("multi_select",
                    List([i \in 1 .. Len(value.list) |-> NameObject(value.list[i])]))
          ELSE IF IsStr(value) THEN Wrap("multi_select", List(<<NameObject(value)>>))
          ELSE value)
    ELSE IF prop_type = "date"
    THEN (IF IsStr(value) THEN Wrap("date", Obj([start |-> value])) ELSE value)
    ELSE IF prop_type = "checkbox" THEN Wrap("checkbox", Bool(Truthy(value)))
    ELSE IF prop_type = "rich_text"
    THEN (IF IsStr(value) THEN Wrap("rich_text", TextContent(value)) ELSE value)
    ELSE IF prop_type = "number"
    THEN (IF CanFloat(value) THEN Wrap("number", Num(ToFloat(value))) ELSE value)
    ELSE IF prop_type = "url" THEN Wrap("url", value)
    ELSE IF prop_type = "status"
    THEN (IF IsStr(value) THEN Wrap("status", NameObject(value)) ELSE value)
    ELSE value

\* properties: a function from property names to values
format_properties_for_api(mapping, database_name, properties) ==
    [prop_name \in DOMAIN properties |->
        FormatValue(resolve_property_type(mapping, database_name, prop_name),
                    properties[prop_name])]

(***************************************************************************)
(* Identifiers: strings are sequences of characters.                       *)
(***************************************************************************)
LowerHex == {"0", "1", "2", "3", "4", "5", "6", "7", "8", "9", "a", "b", "c", "d", "e", "f"}
UpperToLower == [c \in {"A", "B", "C", "D", "E", "F"} |->
                    CASE c = "A" -> "a" [] c = "B" -> "b" [] c = "C" -> "c"
                      [] c = "D" -> "d" [] c = "E" -> "e" [] c = "F" -> "f"]
Lower(c) == IF c \in DOMAIN UpperToLower THEN UpperToLower[c] ELSE c

\* id_str.replace("-", "")
RemoveHyphens(id_str) == SelectSeq(id_str, LAMBDA c : c # "-")

RECURSIVE Strip(_, _)
\* str.strip(chars): leading and trailing characters of chars removed
Strip(id_str, chars) ==
    IF id_str # <<>> /\ Head(id_str) \in chars THEN Strip(Tail(id_str), chars)
    ELSE IF id_str # <<>> /\ id_str[Len(id_str)] \in chars
    THEN Strip(SubSeq(id_str, 1, Len(id_str) - 1), chars)
    ELSE id_str

\* the 32 hexadecimal digits uuid.UUID(hex) reads: braces stripped, hyphens removed
\* (none of the identifiers of the model holds the "urn:" or "uuid:" prefix it also drops)
UuidDigits(id_str) == RemoveHyphens(Strip(id_str, {"{", "}"}))

\* uuid.UUID(hex) does not raise ValueError
IsUuid(id_str) ==
    /\ Len(UuidDigits(id_str)) = 32
    /\ \A i \in 1 .. 32 : UuidDigits(id_str)[i] \in LowerHex \cup DOMAIN UpperToLower

\* str(uuid.UUID(hex)): lower case, hyphens after 8, 12, 16 and 20 digits
UuidString(id_str) ==
    LET d == [i \in 1 .. 32 |-> Lower(UuidDigits(id_str)[i])]
    IN SubSeq(d, 1, 8) \o <<"-">> \o SubSeq(d, 9, 12) \o <<"-">> \o SubSeq(d, 13, 16)
       \o <<"-">> \o SubSeq(d, 17, 20) \o <<"-">> \o SubSeq(d, 21, 32)

\* variant: an identifier that cannot be normalized is cut to nothing
normalize_uuid_DropsMalformed(id_str) ==
    IF id_str = <<>> THEN id_str
    ELSE IF IsUuid(RemoveHyphens(id_str)) THEN UuidString(RemoveHyphens(id_str))
    ELSE <<>>

\* NotionAdapter._normalize_uuid
normalize_uuid(id_str) ==
    IF id_str = <<>> THEN id_str
    ELSE IF IsUuid(RemoveHyphens(id_str)) THEN UuidString(RemoveHyphens(id_str))
    ELSE id_str

Hex8 == <<"1", "2", "3", "4", "a", "b", "c", "d">>
Hex4 == <<"0", "9", "e", "f">>
IdCanonical == Hex8 \o <<"-">> \o Hex4 \o <<"-">> \o Hex4 \o <<"-">> \o Hex4 \o <<"-">> \o Hex8 \o Hex4
IdCompact == Hex8 \o Hex4 \o Hex4 \o Hex4 \o Hex8 \o Hex4
IdShort == Hex8
IdNotHex == <<"p", "a", "g", "e">> \o SubSeq(IdCompact, 5, 32)

\* canonical, without hyphens, in upper case, with misplaced hyphens, in braces, too
\* short, not hexadecimal, empty
PageIds ==
    {IdCanonical, IdCompact,
     <<"1", "2", "3", "4", "A", "B", "C", "D">> \o SubSeq(IdCompact, 9, 32),
     Hex4 \o <<"-">> \o Hex4 \o Hex8 \o <<"-", "-">> \o Hex4 \o Hex8 \o Hex4,
     <<"{">> \o IdCanonical \o <<"}">>,
     IdShort, IdNotHex, <<>>}

\* the canonical dashed form 8-4-4-4-12, in lower case
IsCanonical(id_str) ==
    /\ Len(id_str) = 36
    /\ \A i \in 1 .. 36 :
           IF i \in {9, 14, 19, 24} THEN id_str[i] = "-" ELSE id_str[i] \in LowerHex

\* the "id" field of each registry entry
DatabaseIdField ==
    [todo_list |-> IdCanonical, diary |-> <<" ">> \o IdCompact \o <<" ">>,
     broken |-> IdNotHex, blank |-> <<>>, untitled |-> IdCompact]

RegistryOrder == <<"todo_list", "diary", "broken", "blank", "untitled">>

NoId == <<"<", "n", "o", "n", "e", ">">>

\* variant: an entry whose "id" is empty is resolved as well
resolve_database_id_KeepsBlank(mapping, database_name) ==
    IF database_name = "" THEN NoId
    ELSE IF database_name \in mapping THEN Strip(DatabaseIdField[database_name], {" "})
    ELSE NoId

\* NotionAdapter._resolve_database_id: NoId stands for None
resolve_database_id(mapping, database_name) ==
    IF database_name = "" THEN NoId
    ELSE IF database_name \in mapping /\ DatabaseIdField[database_name] # <<>>
    THEN Strip(DatabaseIdField[database_name], {" "})
    ELSE NoId

(***************************************************************************)
(* NotionAdapter.search_database: the filter it builds                      *)
(***************************************************************************)
\* {"property": prop, kind: {cond: value}}; cond "is" stands for {"property": prop, "date": value}
Predicate(prop, kind, cond, value) ==
    [property |-> prop, kind |-> kind, cond |-> cond, value |-> value]

\* the title property of a schema: the first property declared with type "title"
HasTitle(props) == \E k \in DOMAIN props : props[k] = "title"
FirstTitle(props) == CHOOSE k \in DOMAIN props : props[k] = "title"

\* search_database: title_prop
SearchTitleProperty(mapping, database_name) ==
    IF database_name \in mapping /\ HasTitle(SchemaProperties(database_name))
    THEN FirstTitle(SchemaProperties(database_name))
    ELSE "Name"

\* variant: the value of a checkbox condition is converted to a boolean and a date
\* condition is always an equality
ConditionFilter_Coerces(prop_type, prop, value) ==
    IF prop_type = "checkbox"
    THEN <<Predicate(prop, prop_type, "equals", Bool(Truthy(value)))>>
    ELSE IF prop_type \in {"select", "status"}
    THEN <<Predicate(prop, prop_type, "equals", value)>>
    ELSE IF prop_type = "date" THEN <<Predicate(prop, "date", "equals", value)>>
    ELSE IF IsStr(value) THEN <<Predicate(prop, "rich_text", "contains", value)>>
    ELSE <<>>

\* variant: a value that is no string is searched for as well
ConditionFilter_AnyValue(prop_type, prop, value) ==
    IF prop_type \in {"checkbox", "select", "status"}
    THEN <<Predicate(prop, prop_type, "equals", value)>>
    ELSE IF prop_type = "date"
    THEN <<Predicate(prop, "date", IF IsDict(value) THEN "is" ELSE "equals", value)>>
    ELSE <<Predicate(prop, "rich_text", "contains", value)>>

\* the predicates one key of filter_conditions adds
ConditionFilter(prop_type, prop, value) ==
    IF prop_type \in {"checkbox", "select", "status"}
    THEN <<Predicate(prop, prop_type, "equals", value)>>
    ELSE IF prop_type = "date"
    THEN <<Predicate(prop, "date", IF IsDict(value) THEN "is" ELSE "equals", value)>>
    ELSE IF IsStr(value) THEN <<Predicate(prop, "rich_text", "contains", value)>>
    ELSE <<>>

RECURSIVE ConditionFilters(_, _, _)
\* for prop, value in conditions.items()
ConditionFilters(mapping, database_name, pairs) ==
    IF pairs = <<>> THEN <<>>
    ELSE ConditionFilter(resolve_property_type(mapping, database_name, Head(pairs)[1]),
                         Head(pairs)[1], Head(pairs)[2])
         \o ConditionFilters(mapping, database_name, Tail(pairs))

NoConditions == [kind |-> "absent"]
Conditions(pairs) == [kind |-> "object", pairs |-> pairs]

\* filters: the title predicate of a query, then the predicates of filter_conditions;
\* a filter_conditions that is no JSON text or no JSON object adds nothing
BuildFilters(mapping, database_name, query, filter_conditions) ==
    (IF query # ""
     THEN <<Predicate(SearchTitleProperty(mapping, database_name), "title", "contains",
                      Str(query))>>
     ELSE <<>>)
    \o (IF filter_conditions.kind = "object"
        THEN ConditionFilters(mapping, database_name, filter_conditions.pairs)
        ELSE <<>>)

NoFilter == [absent |-> TRUE]

\* variant: the predicates are always put under "and"
PayloadFilter_AlwaysAnd(filters) == [and |-> filters]

\* payload["filter"]
PayloadFilter(filters) ==
    IF Len(filters) > 1 THEN [and |-> filters]
    ELSE IF Len(filters) = 1 THEN filters[1]
    ELSE NoFilter

(***************************************************************************)
(* The four executor operations.                                            *)
(***************************************************************************)
RemoteOutcomes == {"ok", "api_error", "timeout"}

NoSent == [endpoint |-> "none"]
Returned(error, remote_calls, sent) ==
    [outcome |-> "returned", error |-> error, remoteCalls |-> remote_calls, sent |-> sent,
     id |-> NoId]
Raised ==
    [outcome |-> "raised", error |-> "none", remoteCalls |-> 0, sent |-> NoSent, id |-> NoId]

\* the id the remote store gives to a page it creates
NewPageId ==
    Hex4 \o Hex4 \o <<"-">> \o Hex4 \o <<"-">> \o Hex4 \o <<"-">> \o Hex4 \o <<"-">> \o Hex8 \o Hex4

\* response.get("id"): the id of the created page, or of the updated page
ResponseId(sent) == IF sent.endpoint = "pages.create" THEN NewPageId ELSE sent.id

\* return {"status": "success", "id": response.get("id"), ...}
SuccessWithId(result) ==
    IF result.outcome = "returned" /\ result.error = "none"
    THEN [result EXCEPT !.id = ResponseId(result.sent)]
    ELSE result

\* variant: only APIResponseError is caught
RemoteResult_OnlyApiErrors(remote, sent) ==
    IF remote = "timeout" THEN [Raised EXCEPT !.remoteCalls = 1, !.sent = sent]
    ELSE Returned(IF remote = "ok" THEN "none" ELSE "api_error", 1, sent)

\* variant: a failed call is issued a second time
RemoteResult_Retries(remote, sent) ==
    Returned(IF remote = "ok" THEN "none"
             ELSE IF remote = "api_error" THEN "api_error" ELSE "unexpected",
             IF remote = "ok" THEN 1 ELSE 2, sent)

\* try: response = self.client...(...) except APIResponseError / except Exception
RemoteResult(remote, sent) ==
    Returned(IF remote = "ok" THEN "none"
             ELSE IF remote = "api_error" THEN "api_error" ELSE "unexpected",
             1, sent)

\* the "properties" argument: a mapping, None (absent), or a value that is no mapping
NoProperties == [kind |-> "absent"]
NotMapping == [kind |-> "not_mapping"]
Properties(map) == [kind |-> "map", map |-> map]

\* NotionAdapter.search_database
search_database(mapping, client, query, database_name, filter_conditions, remote) ==
    LET database_id == resolve_database_id(mapping, database_name)
    IN IF ~client THEN Returned("not_initialized", 0, NoSent)
       ELSE IF database_name # "" /\ database_id = NoId THEN Returned("not_found", 0, NoSent)
       ELSE IF database_name # "" /\ ~IsUuid(database_id)
       THEN Returned("invalid_id", 0, NoSent)
       ELSE IF database_name # ""
       THEN RemoteResult(remote,
                [endpoint |-> "databases.query", id |-> UuidString(database_id),
                 filter |-> PayloadFilter(BuildFilters(mapping, database_name, query,
                                                       filter_conditions))])
       ELSE RemoteResult(remote, [endpoint |-> "search", query |-> query])

\* create_page: title_prop_name; "Namae" stands for the default, the Japanese word for name
CreateTitleProperty(mapping, database_name) ==
    IF database_name \in mapping /\ HasTitle(SchemaProperties(database_name))
    THEN FirstTitle(SchemaProperties(database_name))
    ELSE "Namae"

\* variant: a title value given in properties is kept
WithTitle_KeepsSupplied(formatted_properties, title_prop_name, title) ==
    [k \in DOMAIN formatted_properties \cup {title_prop_name} |->
        IF k \in DOMAIN formatted_properties THEN formatted_properties[k]
        ELSE Wrap("title", TextContent(Str(title)))]

\* formatted_properties[title_prop_name] = {"title": [{"text": {"content": title}}]}
WithTitle(formatted_properties, title_prop_name, title) ==
    [k \in DOMAIN formatted_properties \cup {title_prop_name} |->
        IF k = title_prop_name THEN Wrap("title", TextContent(Str(title)))
        ELSE formatted_properties[k]]

\* NotionAdapter.create_page
create_page(mapping, client, database_name, title, properties, remote) ==
    LET database_id == resolve_database_id(mapping, database_name)
    IN IF ~client THEN Returned("not_initialized", 0, NoSent)
       ELSE IF database_id = NoId THEN Returned("not_found", 0, NoSent)
       ELSE IF ~IsUuid(database_id) THEN Returned("invalid_id", 0, NoSent)
       ELSE IF properties.kind = "not_mapping" THEN Raised
       ELSE SuccessWithId(RemoteResult(remote,
                [endpoint |-> "pages.create", id |-> UuidString(database_id),
                 properties |->
                     WithTitle(format_properties_for_api(mapping, database_name,
                                   IF properties.kind = "absent" THEN <<>>
                                   ELSE properties.map),
                               CreateTitleProperty(mapping, database_name), title)]))

\* variant: the databases that declare prop_name, the last of the registry first
DeclaringDatabases_LastFirst(mapping, prop_name) ==
    LET declaring == SelectSeq(RegistryOrder,
                               LAMBDA db_name : db_name \in mapping
                                                /\ prop_name \in DOMAIN SchemaProperties(db_name))
    IN [i \in 1 .. Len(declaring) |-> declaring[Len(declaring) + 1 - i]]

\* update_page: the databases of the registry, in its order, that declare prop_name
DeclaringDatabases(mapping, prop_name) ==
    SelectSeq(RegistryOrder,
              LAMBDA db_name : db_name \in mapping
                               /\ prop_name \in DOMAIN SchemaProperties(db_name))

\* update_page: formatted_properties
UpdateProperties(mapping, properties) ==
    [prop_name \in DOMAIN properties |->
        IF DeclaringDatabases(mapping, prop_name) # <<>>
        THEN format_properties_for_api(mapping, Head(DeclaringDatabases(mapping, prop_name)),
                                       [k \in {prop_name} |-> properties[prop_name]])[prop_name]
        ELSE properties[prop_name]]

\* NotionAdapter.update_page
update_page(mapping, client, page_id, properties, remote) ==
    IF ~client THEN Returned("not_initialized", 0, NoSent)
    ELSE IF properties.kind # "map" THEN Raised
    ELSE SuccessWithId(RemoteResult(remote,
             [endpoint |-> "pages.update", id |-> normalize_uuid(page_id),
              properties |-> UpdateProperties(mapping, properties.map)]))

\* NotionAdapter.append_block
append_block(client, block_id, remote) ==
    IF ~client THEN Returned("not_initialized", 0, NoSent)
    ELSE RemoteResult(remote,
             [endpoint |-> "blocks.children.append", id |-> normalize_uuid(block_id)])

(***************************************************************************)
(* The executor operations of NotionAdapter (SpecNotion).                   *)
(***************************************************************************)
\* the adapter keeps no state between calls: a behaviour is the adapter as the
\* composition root built it, then one call of an operation, or of the formatter
\* once and again on its own output
RawValues ==
    {Str("a"), Str(""), Str("5"), Bool(TRUE), Bool(FALSE), Num(0), Num(3), Null,
     List(<<>>), List(<<Str("a"), Str("b")>>), Obj(<<>>), Obj([start |-> Str("d")]),
     Obj([select |-> NameObject(Str("a"))]), Obj([checkbox |-> Bool(FALSE)])}

\* "untitled" is an entry with a valid id whose schema declares no title property
AdapterNames == DbNames \cup {"broken", "blank", "untitled"}

PropertyMaps ==
    UNION {[names -> RawValues] :
              names \in {n \in SUBSET PropertyNames : Cardinality(n) <= MaxProps}}

\* arguments of the four operations
DatabaseNameArgs == AdapterNames \cup {"", "unknown_db"}
ArgValues == {Str("a"), Bool(FALSE), Num(3), Null, List(<<>>), Obj([start |-> Str("d")])}
\* a call of one property takes every kind of value, a call of several takes
\* a string, a number or a boolean for each
PropertyArgs ==
    {NoProperties, NotMapping}
    \cup {Properties(map) : map \in
           UNION {[names -> IF Cardinality(names) <= 1 THEN ArgValues
                            ELSE {Str("a"), Num(3), Bool(FALSE)}] :
                     names \in {n \in SUBSET {"Name", "Title", "Done", "Other"} :
                                   Cardinality(n) <= MaxArgProps}}}

\* the key/value pairs of a JSON object of n keys, in the order the text lists them
ConditionPairs(n) ==
    {pairs \in [1 .. n -> {"Done", "Due", "Status"} \X ArgValues] :
        \A i, j \in 1 .. n : i # j => pairs[i][1] # pairs[j][1]}
FilterArgs ==
    {NoConditions, [kind |-> "unparseable"], [kind |-> "array"]}
    \cup {Conditions(pairs) : pairs \in UNION {ConditionPairs(n) : n \in 1 .. MaxConds}}

InitNotion ==
    /\ maxHistoryLength = SESSION_MAX_HISTORY_LENGTH
    /\ store = AbsentDoc
    /\ now = 0
    /\ calls = 0
    /\ addedAt = [n \in 1 .. MaxCalls |-> NoTimestamp]
    /\ lastOp = "init"
    /\ readResult = <<>>
    /\ readLimit = 0
    /\ version = 0
    /\ txn = [w \in Writers |-> IdleTxn]
    /\ registry \in {{}, AdapterNames}
    /\ path = "api"
    /\ ready = TRUE
    /\ lpc = "start"
    /\ epc = "idle"
    /\ ExecIdle
    /\ cancelled = FALSE
    /\ opsBeforeCancel = FALSE
    /\ delivered = <<>>
    /\ storeAtStart = AbsentDoc
    /\ notionClient \in BOOLEAN
    /\ nCall = NoCall
    /\ nResult = NoResult
    /\ fmtDb = "none"
    /\ fmtProps = <<>>
    /\ fmtPasses = 0

notionFrame == <<memVars, txnVars, registry, path, ready, lpc, epc, execVars, cancelled,
                 opsBeforeCancel, delivered, storeAtStart, notionClient>>

\* _format_properties_for_api applied to a raw map, then to what it returned
FormatProperties ==
    /\ fmtPasses < MaxPasses
    /\ \/ /\ fmtPasses = 0
          /\ nCall = NoCall
          /\ \E database_name \in {"todo_list", "diary"}, properties \in PropertyMaps :
                /\ nCall' = [op |-> "format", database_name |-> database_name,
                             properties |-> properties]
                /\ fmtDb' = database_name
                /\ fmtProps' = format_properties_for_api(registry, database_name, properties)
       \/ /\ fmtPasses > 0
          /\ fmtProps' = format_properties_for_api(registry, fmtDb, fmtProps)
          /\ UNCHANGED <<nCall, fmtDb>>
    /\ fmtPasses' = fmtPasses + 1
    /\ UNCHANGED <<notionFrame, nResult>>

SearchDatabase ==
    /\ nCall = NoCall
    /\ \E query \in {"", "milk"}, database_name \in DatabaseNameArgs,
          filter_conditions \in FilterArgs, remote \in RemoteOutcomes :
          /\ nCall' = [op |-> "search_database", query |-> query,
                       database_name |-> database_name,
                       filter_conditions |-> filter_conditions, remote |-> remote]
          /\ nResult' = search_database(registry, notionClient, query, database_name,
                                        filter_conditions, remote)
    /\ UNCHANGED <<notionFrame, fmtDb, fmtProps, fmtPasses>>

CreatePage ==
    /\ nCall = NoCall
    /\ \E database_name \in DatabaseNameArgs, title \in {"t"},
          properties \in PropertyArgs, remote \in RemoteOutcomes :
          /\ nCall' = [op |-> "create_page", database_name |-> database_name,
                       title |-> title, properties |-> properties, remote |-> remote]
          /\ nResult' = create_page(registry, notionClient, database_name, title,
                                    properties, remote)
    /\ UNCHANGED <<notionFrame, fmtDb, fmtProps, fmtPasses>>

UpdatePage ==
    /\ nCall = NoCall
    /\ \E page_id \in PageIds, properties \in PropertyArgs, remote \in RemoteOutcomes :
          /\ nCall' = [op |-> "update_page", page_id |-> page_id,
                       properties |-> properties, remote |-> remote]
          /\ nResult' = update_page(registry, notionClient, page_id, properties, remote)
    /\ UNCHANGED <<notionFrame, fmtDb, fmtProps, fmtPasses>>

AppendBlock ==
    /\ nCall = NoCall
    /\ \E block_id \in PageIds, remote \in RemoteOutcomes :
          /\ nCall' = [op |-> "append_block", block_id |-> block_id, remote |-> remote]
          /\ nResult' = append_block(notionClient, block_id, remote)
    /\ UNCHANGED <<notionFrame, fmtDb, fmtProps, fmtPasses>>

NextNotion ==
    \/ FormatProperties
    \/ SearchDatabase
    \/ CreatePage
    \/ UpdatePage
    \/ AppendBlock

SpecNotion == InitNotion /\ [][NextNotion]_vars

(***************************************************************************)
(* ProcessMessageUseCase.execute and its callers (Spec).                   *)
(***************************************************************************)
ToolNames == {"search_database", "create_page", "update_page", "append_block"}

\* what the LLM can answer with
\* a registry key whose schema document holds no field
EmptySchemaNames == {"blank"}
\* a name with a schema, a key without one, and a name that is no key; a name may
\* be selected more than once
SelectableNames == {"todo_list"} \cup EmptySchemaNames \cup {"unknown_db"}
\* a tool called well, a tool called with arguments it does not take, a call without
\* an argument mapping, and a name that is no tool
CallKinds ==
    {[name |-> "update_page", args |-> "valid"],
     [name |-> "update_page", args |-> "bad_kwargs"],
     [name |-> "update_page", args |-> "not_mapping"],
     [name |-> "delete_page", args |-> "valid"]}
Selections == UNION {[1 .. n -> SelectableNames] : n \in 0 .. MaxSelected}
Batches == UNION {[1 .. n -> CallKinds] : n \in 0 .. MaxOps}

Utterance == UserMessage(1)
LlmReply == ModelResponse(1)
ApologyText == <<"apology", 0>>
\* response.text of an answer without text: the empty string, and None
EmptyText == <<"", 0>>
NoneText == <<"None", 0>>
\* what response.text of the composing call can be
ResponseTexts == {LlmReply, EmptyText, NoneText}
ExceptionText == <<"exception", 0>>
ProcessingText == <<"processing", 0>>
DelayedErrorText == <<"delayed_error", 0>>
SystemErrorText == <<"system_error", 0>>
ConfigErrorText == <<"config_error", 0>>
RejectedText == <<"rejected", 0>>
OkText == <<"ok", 0>>

SuspensionPoints == {"select", "synth", "gather", "compose"}

InitOrch ==
    /\ maxHistoryLength = SESSION_MAX_HISTORY_LENGTH
    /\ store \in {AbsentDoc, [exists |-> TRUE, history |-> PriorWindow, updated_at |-> 0]}
    /\ now = 0
    /\ calls = 0
    /\ addedAt = [n \in 1 .. MaxCalls |-> NoTimestamp]
    /\ lastOp = "init"
    /\ readResult = <<>>
    /\ readLimit = 0
    /\ version = 0
    /\ txn = [w \in Writers |-> IdleTxn]
    /\ registry \in {{}, (DbNames \cup EmptySchemaNames)}
    /\ path \in {"api", "line"}
    /\ ready \in BOOLEAN
    /\ lpc = "start"
    /\ epc = "idle"
    /\ ExecIdle
    /\ cancelled = FALSE
    /\ opsBeforeCancel = FALSE
    /\ delivered = <<>>
    /\ storeAtStart = store
    /\ AdapterIdle

\* variant: the handler swallows the exception and execute returns None
ExecuteOnError_Swallow == "returned"

\* except Exception: logger.error(...); raise
ExecuteOnError == "raised"

\* single_db_schema = self.db_schemas.get(db_name) is truthy
HasSchema(reg, db_name) == db_name \in reg /\ db_name \notin EmptySchemaNames

\* variant: the loop ends at the first name without a schema
NextSchemaIndex_StopsAtMissing(sel, from, reg) ==
    IF from <= Len(sel) /\ HasSchema(reg, sel[from]) THEN from ELSE Len(sel) + 1

\* for db_name in selected_db_names: names without a schema are skipped
NextSchemaIndex(sel, from, reg) ==
    IF \E j \in from .. Len(sel) : HasSchema(reg, sel[j])
    THEN CHOOSE j \in from .. Len(sel) :
             HasSchema(reg, sel[j]) /\ \A k \in from .. (j - 1) : ~HasSchema(reg, sel[k])
    ELSE Len(sel) + 1

\* the session read and the first await of execute
BeginExecute ==
    /\ \E readOk \in BOOLEAN :
           history' = IF readOk
                      THEN get_recent_history(store, SESSION_HISTORY_LIMIT_MINUTES, now)
                      ELSE <<>>
    /\ selected' = <<>>
    /\ dbIndex' = 0
    /\ tasks' = <<>>
    /\ allToolResults' = <<>>
    /\ synthCalls' = <<>>
    /\ toolRuns' = 0
    /\ composeCalls' = <<>>
    /\ addCalls' = 0
    /\ savedWith' = <<>>
    /\ requested' = <<>>
    /\ failedStage' = "none"
    /\ finalResponse' = NoText
    /\ responseText' = NoText
    /\ epc' = "select"

\* {"role": "function", "parts": parts}: one function_response part per tool result
FunctionTurn(tool_results) == [role |-> "function", parts |-> <<"results", Len(tool_results)>>]

\* generate_response: contents, as given to the LLM
ResponseContents(hist, user_utterance, tool_results) ==
    hist \o <<UserTurn(user_utterance)>>
         \o (IF tool_results # <<>> THEN <<FunctionTurn(tool_results)>> ELSE <<>>)

\* the list execute passed, once generate_response has built its contents:
\* contents = history or [] is the passed list itself unless that list is empty
HistoryAfterResponse(hist, user_utterance, tool_results) ==
    IF hist # <<>> THEN ResponseContents(hist, user_utterance, tool_results) ELSE hist

\* the loop goes on with the database at index j, or leaves for the final response
ContinueLoop(sel, j, results) ==
    /\ dbIndex' = j
    /\ tasks' = <<>>
    /\ IF j > Len(sel)
       THEN /\ composeCalls' = Append(composeCalls, results)
            /\ history' = HistoryAfterResponse(history, Utterance, results)
            /\ epc' = "compose"
            /\ UNCHANGED synthCalls
       ELSE /\ synthCalls' = Append(synthCalls, sel[j])
            /\ epc' = "synth"
            /\ UNCHANGED <<composeCalls, history>>

Raise(stage) ==
    /\ failedStage' = stage
    /\ epc' = ExecuteOnError

Running == lpc \in {"exec1", "exec2"}

frameVars == <<memVars, txnVars, registry, path, ready, cancelled, opsBeforeCancel,
               storeAtStart,
               adapterVars>>

SelectReturns(sel) ==
    /\ Running /\ epc = "select"
    /\ selected' = sel
    /\ IF sel = <<>>
       THEN /\ composeCalls' = Append(composeCalls, <<>>)
            /\ history' = HistoryAfterResponse(history, Utterance, <<>>)
            /\ epc' = "compose"
            /\ UNCHANGED <<dbIndex, tasks, synthCalls>>
       ELSE ContinueLoop(sel, NextSchemaIndex(sel, 1, registry), allToolResults)
    /\ UNCHANGED <<allToolResults, toolRuns, addCalls, savedWith, requested,
                   failedStage, finalResponse, responseText>>
    /\ UNCHANGED <<frameVars, lpc, delivered>>

SelectRaises ==
    /\ Running /\ epc = "select"
    /\ Raise("select")
    /\ UNCHANGED <<history, selected, dbIndex, tasks, allToolResults, synthCalls, toolRuns,
                   composeCalls, addCalls, savedWith, requested, finalResponse, responseText>>
    /\ UNCHANGED <<frameVars, lpc, delivered>>

\* the task of the call at position op of the batch synthesized for the database at db
NewTask(call, db, op) ==
    [name |-> call.name, args |-> call.args, status |-> "pending", db |-> db, op |-> op]
\* variant: a call is run whatever its name
IsAvailableTool_AnyName(call) == TRUE

\* if tool_name in available_tools
IsAvailableTool(call) == call.name \in ToolNames
\* the positions of the batch whose name is a key of available_tools, in order
AvailablePositions(batch) ==
    SelectSeq([i \in 1 .. Len(batch) |-> i], LAMBDA i : IsAvailableTool(batch[i]))

RECURSIVE TotalLen(_)
\* the number of calls in a sequence of batches
TotalLen(batches) ==
    IF batches = <<>> THEN 0 ELSE Len(Head(batches)) + TotalLen(Tail(batches))

\* generate_tool_calls returned: the tasks of the batch are built and gathered
\* (one request is given at most MaxOps calls in all)
SynthReturns(batch) ==
    /\ Running /\ epc = "synth"
    /\ TotalLen(requested) + Len(batch) <= MaxOps
    /\ requested' = Append(requested, batch)
    /\ LET known == SelectSeq(batch, IsAvailableTool)
           positions == AvailablePositions(batch)
           newTasks == [i \in 1 .. Len(positions) |->
                           NewTask(batch[positions[i]], dbIndex, positions[i])]
       IN IF \E i \in 1 .. Len(known) : known[i].args = "not_mapping"
          THEN \* **tool_args raises in execute before anything is gathered
               /\ Raise("tool")
               /\ UNCHANGED <<dbIndex, tasks, synthCalls, composeCalls, toolRuns, history>>
          ELSE IF newTasks = <<>>
          THEN /\ ContinueLoop(selected, NextSchemaIndex(selected, dbIndex + 1, registry),
                               allToolResults)
               /\ UNCHANGED <<toolRuns, failedStage>>
          ELSE /\ tasks' = newTasks
               /\ toolRuns' = toolRuns + Len(newTasks)
               /\ epc' = "gather"
               /\ UNCHANGED <<dbIndex, synthCalls, composeCalls, failedStage, history>>
    /\ UNCHANGED <<selected, allToolResults, addCalls, savedWith, finalResponse,
                   responseText>>
    /\ UNCHANGED <<frameVars, lpc, delivered>>

SynthRaises ==
    /\ Running /\ epc = "synth"
    /\ Raise("synth")
    /\ UNCHANGED <<history, selected, dbIndex, tasks, allToolResults, synthCalls, toolRuns,
                   composeCalls, addCalls, savedWith, requested, finalResponse, responseText>>
    /\ UNCHANGED <<frameVars, lpc, delivered>>

\* what one executor operation run in its thread comes back with
ToolOutcomes(args) ==
    IF args = "bad_kwargs" THEN {"raised"} ELSE {"ok", "error"}

ToolCompletes(i) ==
    /\ Running /\ epc = "gather"
    /\ i \in 1 .. Len(tasks)
    /\ tasks[i].status = "pending"
    /\ \E r \in ToolOutcomes(tasks[i].args) : tasks' = [tasks EXCEPT ![i].status = r]
    /\ UNCHANGED <<history, selected, dbIndex, allToolResults, synthCalls, toolRuns,
                   composeCalls, addCalls, savedWith, requested, failedStage,
                   finalResponse, responseText, epc>>
    /\ UNCHANGED <<frameVars, lpc, delivered>>

\* asyncio.gather without return_exceptions: the first exception is raised in execute
GatherRaises ==
    /\ Running /\ epc = "gather"
    /\ \E i \in 1 .. Len(tasks) : tasks[i].status = "raised"
    /\ Raise("tool")
    /\ UNCHANGED <<history, selected, dbIndex, tasks, allToolResults, synthCalls, toolRuns,
                   composeCalls, addCalls, savedWith, requested, finalResponse, responseText>>
    /\ UNCHANGED <<frameVars, lpc, delivered>>

\* all tasks of the batch returned: their results are appended in task order
GatherReturns ==
    /\ Running /\ epc = "gather"
    /\ \A i \in 1 .. Len(tasks) : tasks[i].status \in {"ok", "error"}
    /\ LET results == allToolResults \o
                      [i \in 1 .. Len(tasks) |->
                          [name |-> tasks[i].name, result |-> tasks[i].status,
                           db |-> tasks[i].db, op |-> tasks[i].op]]
       IN /\ allToolResults' = results
          /\ ContinueLoop(selected, NextSchemaIndex(selected, dbIndex + 1, registry), results)
    /\ UNCHANGED <<selected, toolRuns, addCalls, savedWith, requested,
                   failedStage, finalResponse, responseText>>
    /\ UNCHANGED <<frameVars, lpc, delivered>>

\* variant: the utterance is saved in place of the response
SavedInteraction_UtteranceTwice(user_utterance, final_response) ==
    [user |-> user_utterance, model |-> user_utterance]

\* add_interaction(session_id, user_utterance, final_response)
SavedInteraction(user_utterance, final_response) ==
    [user |-> user_utterance, model |-> final_response]

\* variant: the text of the answer is returned as it is
generate_response_AsIs(response_text) == response_text

\* generate_response: if response.text: return response.text else: return the apology
generate_response(response_text) ==
    IF response_text \notin {EmptyText, NoneText} THEN response_text ELSE ApologyText

\* variant: the final response is returned without saving the interaction
ComposeReturns_NoSave(response_text) ==
    /\ Running /\ epc = "compose"
    /\ responseText' = response_text
    /\ finalResponse' = generate_response(response_text)
    /\ epc' = "returned"
    /\ UNCHANGED <<history, selected, dbIndex, tasks, allToolResults, synthCalls, toolRuns,
                   composeCalls, addCalls, savedWith, requested, failedStage>>
    /\ UNCHANGED <<frameVars, lpc, delivered>>

\* generate_response returned: the interaction is saved and execute returns
ComposeReturns(response_text) ==
    /\ Running /\ epc = "compose"
    /\ responseText' = response_text
    /\ LET text == generate_response(response_text)
       IN /\ finalResponse' = text
          /\ savedWith' = Append(savedWith, SavedInteraction(Utterance, text))
          /\ \E saved \in BOOLEAN :
                 store' = IF saved
                          THEN update_in_transaction(store, now,
                                                     SavedInteraction(Utterance, text).user,
                                                     SavedInteraction(Utterance, text).model,
                                                     maxHistoryLength)
                          ELSE store
    /\ addCalls' = addCalls + 1
    /\ epc' = "returned"
    /\ UNCHANGED <<history, selected, dbIndex, tasks, allToolResults, synthCalls, toolRuns,
                   composeCalls, requested, failedStage>>
    /\ UNCHANGED <<maxHistoryLength, now, calls, addedAt, lastOp, readResult, readLimit,
                   txnVars, registry, path, ready, cancelled, opsBeforeCancel, storeAtStart,
                   lpc, delivered,
                   adapterVars>>

ComposeRaises ==
    /\ Running /\ epc = "compose"
    /\ Raise("compose")
    /\ UNCHANGED <<history, selected, dbIndex, tasks, allToolResults, synthCalls, toolRuns,
                   composeCalls, addCalls, savedWith, requested, finalResponse, responseText>>
    /\ UNCHANGED <<frameVars, lpc, delivered>>

(***************************************************************************)
(* The entry paths: main_logic and LineController._handle_text_message.    *)
(***************************************************************************)
ComposerTexts == {LlmReply, ApologyText}

Message(via, text, ok) == [via |-> via, text |-> text, ok |-> ok]

runVars == <<history, selected, dbIndex, tasks, allToolResults, synthCalls, toolRuns,
             composeCalls, addCalls, savedWith, requested, failedStage, finalResponse,
             responseText, epc>>

\* if not process_message_use_case: configuration error, 500
MainLogicRejects ==
    /\ lpc = "start" /\ ~ready
    /\ delivered' = Append(delivered, Message("http", ConfigErrorText, TRUE))
    /\ lpc' = "done"
    /\ UNCHANGED <<frameVars, runVars>>

\* "Unauthorized", 401 and "Invalid Request", 400
ApiRejects ==
    /\ lpc = "start" /\ ready /\ path = "api"
    /\ delivered' = Append(delivered, Message("http", RejectedText, TRUE))
    /\ lpc' = "done"
    /\ UNCHANGED <<frameVars, runVars>>

\* a JSON body with "text": execute is awaited directly
ApiRequest ==
    /\ lpc = "start" /\ ready /\ path = "api"
    /\ BeginExecute
    /\ lpc' = "exec1"
    /\ UNCHANGED <<frameVars, delivered>>

\* the API caller gets the response, or the exception's message with status 500
ApiResponds ==
    /\ lpc = "exec1" /\ path = "api"
    /\ epc \in {"returned", "raised"}
    /\ delivered' = Append(delivered,
           Message("http", IF epc = "returned" THEN finalResponse ELSE ExceptionText, TRUE))
    /\ lpc' = "done"
    /\ UNCHANGED <<frameVars, runVars>>

\* no controller, an invalid signature, or no text message among the events
LineRejects ==
    /\ lpc = "start" /\ ready /\ path = "line"
    /\ \E text \in {RejectedText, OkText} :
           delivered' = Append(delivered, Message("webhook", text, TRUE))
    /\ lpc' = "done"
    /\ UNCHANGED <<frameVars, runVars>>

\* asyncio.wait_for(self.use_case.execute(...), timeout=25)
LineRequest ==
    /\ lpc = "start" /\ ready /\ path = "line"
    /\ BeginExecute
    /\ lpc' = "exec1"
    /\ UNCHANGED <<frameVars, delivered>>

\* execute returned in time: reply_message; a failed reply falls into except Exception
LineReplies ==
    /\ lpc = "exec1" /\ path = "line" /\ epc = "returned"
    /\ \E ok1, ok2 \in BOOLEAN :
           delivered' = delivered
               \o <<Message("reply", finalResponse, ok1)>>
               \o (IF ok1 THEN <<>> ELSE <<Message("reply", SystemErrorText, ok2)>>)
               \o <<Message("webhook", OkText, TRUE)>>
    /\ lpc' = "done"
    /\ UNCHANGED <<frameVars, runVars>>

\* variant: the reply carries the exception's message
LineRepliesError_SendsException ==
    /\ lpc = "exec1" /\ path = "line" /\ epc = "raised"
    /\ \E ok \in BOOLEAN :
           delivered' = delivered
               \o <<Message("reply", ExceptionText, ok)>>
               \o <<Message("webhook", OkText, TRUE)>>
    /\ lpc' = "done"
    /\ UNCHANGED <<frameVars, runVars>>

\* execute raised in time: except Exception replies with the system error text
LineRepliesError ==
    /\ lpc = "exec1" /\ path = "line" /\ epc = "raised"
    /\ \E ok \in BOOLEAN :
           delivered' = delivered
               \o <<Message("reply", SystemErrorText, ok)>>
               \o <<Message("webhook", OkText, TRUE)>>
    /\ lpc' = "done"
    /\ UNCHANGED <<frameVars, runVars>>

\* the wait timed out: execute is cancelled where it awaits, the "processing" reply
\* is sent and execute is called again from the start
LineTimeout ==
    /\ lpc = "exec1" /\ path = "line" /\ epc \in SuspensionPoints
    /\ cancelled' = TRUE
    /\ opsBeforeCancel' = (toolRuns > 0)
    /\ \E ok \in BOOLEAN :
           delivered' = Append(delivered, Message("reply", ProcessingText, ok))
    /\ BeginExecute
    /\ lpc' = "exec2"
    /\ UNCHANGED <<memVars, txnVars, registry, path, ready, storeAtStart, adapterVars>>

\* the second execute returned: push_message; a failed push falls into except Exception,
\* whose own push is not guarded
LineDelayed ==
    /\ lpc = "exec2" /\ epc = "returned"
    /\ \E ok1, ok2 \in BOOLEAN :
           delivered' = delivered
               \o <<Message("push", finalResponse, ok1)>>
               \o (IF ok1 THEN <<>> ELSE <<Message("push", DelayedErrorText, ok2)>>)
               \o <<Message("webhook", IF ok1 \/ ok2 THEN OkText ELSE ExceptionText, TRUE)>>
    /\ lpc' = "done"
    /\ UNCHANGED <<frameVars, runVars>>

LineDelayedError ==
    /\ lpc = "exec2" /\ epc = "raised"
    /\ \E ok \in BOOLEAN :
           delivered' = delivered
               \o <<Message("push", DelayedErrorText, ok)>>
               \o <<Message("webhook", IF ok THEN OkText ELSE ExceptionText, TRUE)>>
    /\ lpc' = "done"
    /\ UNCHANGED <<frameVars, runVars>>

Next ==
    \/ MainLogicRejects
    \/ ApiRejects
    \/ ApiRequest
    \/ ApiResponds
    \/ LineRejects
    \/ LineRequest
    \/ LineReplies
    \/ LineRepliesError
    \/ LineTimeout
    \/ LineDelayed
    \/ LineDelayedError
    \/ \E sel \in Selections : SelectReturns(sel)
    \/ SelectRaises
    \/ \E batch \in Batches : SynthReturns(batch)
    \/ SynthRaises
    \/ \E i \in 1 .. MaxOps : ToolCompletes(i)
    \/ GatherRaises
    \/ GatherReturns
    \/ \E response_text \in ResponseTexts : ComposeReturns(response_text)
    \/ ComposeRaises

Spec == InitOrch /\ [][Next]_vars

(***************************************************************************)
(* Properties of the conversation memory.                                   *)
(***************************************************************************)
TurnCall(turn) == turn.parts[2]

IsSuffix(s, full) ==
    /\ Len(s) <= Len(full)
    /\ s = SubSeq(full, Len(full) - Len(s) + 1, Len(full))

\* the window's last-updated timestamp is more than limit_minutes in the past
WindowOlderThan(doc, limit_minutes, t) ==
    doc.exists /\ doc.updated_at # NoTimestamp /\ t - doc.updated_at > limit_minutes

\* the window has no timestamp, or one older than the configured limit
WindowExpired(doc, t) ==
    \/ ~doc.exists
    \/ doc.updated_at = NoTimestamp
    \/ t - doc.updated_at > SESSION_HISTORY_LIMIT_MINUTES

AllReturned == \A w \in Writers : txn[w].pc \in {"idle", "done", "failed"}
ReturnedCalls == {w \in Writers : txn[w].pc \in {"done", "failed"}}

\* C4: once every concurrent add_interaction call on the session has returned, the
\* stored window is the prior turns plus, for each call, its user turn immediately
\* followed by its model turn, exactly once: no call's turns are lost or duplicated.
C4_NoTurnLostOrDuplicated ==
    AllReturned =>
        /\ Len(store.history) = Len(PriorWindow) + 2 * Cardinality(ReturnedCalls)
        /\ SubSeq(store.history, 1, Len(PriorWindow)) = PriorWindow
        /\ \A w \in ReturnedCalls :
               \E i \in 1 .. Len(store.history) - 1 :
                   /\ store.history[i] = UserTurn(UserMessage(w))
                   /\ store.history[i + 1] = ModelTurn(ModelResponse(w))

\* C5: after an add_interaction call the stored window is no longer than the
\* configured maximum, for every configured maximum >= 0, and it ends with the
\* newest turn (the oldest are the ones discarded).
C5_WindowWithinMaximum ==
    lastOp = "add" =>
        /\ Len(store.history) <= maxHistoryLength
        /\ store.history # <<>> =>
               store.history[Len(store.history)] = ModelTurn(ModelResponse(calls))

\* C6: a get_recent_history on a window whose timestamp is more than limit_minutes
\* in the past returns the empty sequence, whatever history is stored, and leaves
\* the stored document as it was.
C6_ExpiredReadIsEmptyAndKeepsDocument ==
    [][\A l \in ReadLimits :
          (GetRecentHistory(l) /\ WindowOlderThan(store, l, now))
              => (readResult' = <<>> /\ store' = store)]_vars

\* C6 witness: an expired window holding turns was read and gave the empty sequence.
C6_Witness ==
    /\ lastOp = "read"
    /\ WindowOlderThan(store, readLimit, now)
    /\ \E i \in 1 .. Len(store.history) : IsValidItem(store.history[i])
    /\ readResult = <<>>

\* C7 (as claimed): every turn a read returns was added by an add_interaction call
\* made no more than limit_minutes before the read.
C7_EveryReturnedTurnIsRecent ==
    lastOp = "read" =>
        \A i \in 1 .. Len(readResult) :
            TurnCall(readResult[i]) >= 1 =>
                now - addedAt[TurnCall(readResult[i])] <= readLimit

\* C7 (amended): the turns a read returns are the valid turns of a window whose
\* last write was no more than limit_minutes before the read; the age of a single
\* turn is not bounded.
C7_ReturnedTurnsComeFromARecentWindow ==
    (lastOp = "read" /\ readResult # <<>>) =>
        /\ store.exists
        /\ store.updated_at # NoTimestamp
        /\ now - store.updated_at <= readLimit
        /\ readResult = SelectSeq(store.history, IsValidItem)

\* C7 witness: a read returned a turn that was added longer ago than the limit.
C7_Witness ==
    /\ lastOp = "read"
    /\ \E i \in 1 .. Len(readResult) :
           /\ TurnCall(readResult[i]) >= 1
           /\ now - addedAt[TurnCall(readResult[i])] > readLimit

ExecuteEnded == epc \in {"returned", "raised"}
RequestDone == lpc = "done" /\ epc # "idle"

SelectedNothing ==
    /\ epc \in {"compose", "returned", "raised"}
    /\ failedStage # "select"
    /\ selected = <<>>

OperationsOfRequest == Len(allToolResults) + Len(tasks)
SomeOperationFailed ==
    \/ \E i \in 1 .. Len(allToolResults) : allToolResults[i].result = "error"
    \/ \E i \in 1 .. Len(tasks) : tasks[i].status \in {"error", "raised"}

\* C3: when a request has two or more operations and one of them fails, the others are
\* still executed, generate_response receives one result per operation, and the request
\* ends with a composed reply.
C3_OneFailingOperationDoesNotAbortTheRequest ==
    ( /\ epc = "returned" \/ (epc = "raised" /\ failedStage = "tool")
      /\ OperationsOfRequest >= 2
      /\ SomeOperationFailed )
    =>  /\ epc = "returned"
        /\ tasks = <<>>
        /\ composeCalls = <<allToolResults>>

IsTurnOf(item, role) == IsValidItem(item) /\ item.role = role

NoPartialInteraction(h) ==
    \A i \in 1 .. Len(h) :
        IsTurnOf(h[i], "user") => i < Len(h) /\ IsTurnOf(h[i + 1], "model")

RequestIsRecorded(h) ==
    \E i \in 1 .. Len(h) : h[i] = UserTurn(Utterance)

NaturalTexts == {LlmReply, ApologyText, ProcessingText, DelayedErrorText, SystemErrorText}
ToUser(m) == m.via \in {"http", "reply", "push"}
AllSent == \A i \in 1 .. Len(delivered) : delivered[i].ok

C19_FormatPropertiesIsIdempotent ==
    [][(fmtPasses >= 1 /\ fmtPasses' = fmtPasses + 1) => fmtProps' = fmtProps]_vars

\* a raw map the formatter changed has been formatted a second time
C19_Witness ==
    /\ fmtPasses = 2
    /\ nCall.op = "format"
    /\ nCall.database_name \in registry
    /\ fmtProps # nCall.properties

\* an operation of the executor has been called and has ended
OperationEnded == nCall.op \in ToolNames /\ nResult # NoResult
\* the operation reached the remote store and the remote call failed
RemoteFailed == OperationEnded /\ nResult.remoteCalls >= 1 /\ nCall.remote # "ok"
\* the operation did what it was called for: its remote call was issued and succeeded
OperationSucceeded == OperationEnded /\ nResult.remoteCalls >= 1 /\ nCall.remote = "ok"

\* C11: for each of the four operations and every argument value, a failure of the
\* remote call (an API error response or any other exception, a timeout included) is
\* returned as a result carrying an error and is never raised to the caller; a returned
\* result carries an error if and only if the operation failed.
C11_RemoteFailureIsReturnedAsError ==
    /\ RemoteFailed => (nResult.outcome = "returned" /\ nResult.error # "none")
    /\ (OperationEnded /\ nResult.outcome = "returned") =>
           (nResult.error # "none" <=> ~OperationSucceeded)

\* a write whose remote call timed out returned an error result
C11_Witness ==
    /\ RemoteFailed
    /\ nCall.op = "update_page"
    /\ nCall.remote = "timeout"
    /\ nResult = Returned("unexpected", 1, nResult.sent)

\* the logical name of a search or create resolves to a valid identifier (a search
\* without a name has nothing to resolve; update and append are given the id itself)
ResolutionSucceeded ==
    IF nCall.op = "search_database"
    THEN \/ nCall.database_name = ""
         \/ /\ resolve_database_id(registry, nCall.database_name) # NoId
            /\ IsUuid(resolve_database_id(registry, nCall.database_name))
    ELSE IF nCall.op = "create_page"
    THEN /\ resolve_database_id(registry, nCall.database_name) # NoId
         /\ IsUuid(resolve_database_id(registry, nCall.database_name))
    ELSE TRUE

\* the properties argument can be iterated: a mapping, or for create_page left out
PropertiesUsable ==
    /\ nCall.op = "create_page" => nCall.properties.kind # "not_mapping"
    /\ nCall.op = "update_page" => nCall.properties.kind = "map"

\* C12 (as stated): each executed search, create, update or append whose name and
\* identifier resolution succeeds issues exactly one call to the remote store, never
\* zero and never more than one.
C12_ResolvedOperationIssuesExactlyOneCall ==
    (OperationEnded /\ ResolutionSucceeded) => nResult.remoteCalls = 1

\* C12 (amended): no operation issues more than one remote call, whether the call
\* succeeds or fails; it issues exactly one when the client is initialized, the name
\* resolves and the properties argument can be iterated, and none in every other case
\* (without a client the 'not initialized' error is returned, and a properties argument
\* that is no mapping makes create_page and update_page raise before the call).
C12_OneCallWithClientAndUsableArguments ==
    OperationEnded =>
        /\ nResult.remoteCalls <= 1
        /\ nResult.remoteCalls = 1 <=>
               (notionClient /\ ResolutionSucceeded /\ PropertiesUsable)
        /\ (~notionClient) => nResult = Returned("not_initialized", 0, NoSent)
        /\ (notionClient /\ ResolutionSucceeded /\ ~PropertiesUsable) => nResult = Raised

\* a create whose remote call failed was not issued again
C12_Witness ==
    /\ OperationEnded
    /\ nCall.op = "create_page"
    /\ nCall.remote = "api_error"
    /\ nResult.error = "api_error"
    /\ nResult.remoteCalls = 1

\* a search or a create has been called with a logical database name
NamedOperationEnded ==
    /\ OperationEnded
    /\ nCall.op \in {"search_database", "create_page"}
    /\ nCall.database_name # ""
\* the name is no key of the registry, or its entry has an empty identifier
NameUnknown ==
    \/ nCall.database_name \notin registry
    \/ DatabaseIdField[nCall.database_name] = <<>>
\* the name is registered and its identifier is no UUID
IdentifierInvalid ==
    /\ nCall.database_name \in registry
    /\ DatabaseIdField[nCall.database_name] # <<>>
    /\ ~IsUuid(Strip(DatabaseIdField[nCall.database_name], {" "}))

\* C13 (as stated): search and create called with a name that is not in the registry (or
\* whose entry has an empty identifier) return a 'not found' error result, and called
\* with a registered name whose identifier is no valid UUID an 'invalid identifier' error
\* result; no exception is raised and no remote call is issued.
C13_UnknownNameIsNotFoundInvalidIdIsInvalid ==
    NamedOperationEnded =>
        /\ NameUnknown => nResult = Returned("not_found", 0, NoSent)
        /\ IdentifierInvalid => nResult = Returned("invalid_id", 0, NoSent)

\* C13 (amended): with an initialized client the results are 'not found' and 'invalid
\* identifier' as stated; without one both cases return the 'not initialized' error
\* result; never an exception, never a remote call. A create with an empty name is
\* 'not found'; a search with an empty name resolves nothing and searches all pages.
C13_ErrorResultNamesTheFirstFailedCheck ==
    /\ NamedOperationEnded =>
           /\ NameUnknown =>
                  nResult = Returned(IF notionClient THEN "not_found" ELSE "not_initialized",
                                     0, NoSent)
           /\ IdentifierInvalid =>
                  nResult = Returned(IF notionClient THEN "invalid_id" ELSE "not_initialized",
                                     0, NoSent)
    /\ (OperationEnded /\ nCall.op = "create_page" /\ nCall.database_name = "") =>
           nResult = Returned(IF notionClient THEN "not_found" ELSE "not_initialized",
                              0, NoSent)
    /\ (OperationEnded /\ nCall.op = "search_database" /\ nCall.database_name = ""
          /\ notionClient) =>
           /\ nResult.outcome = "returned"
           /\ nResult.remoteCalls = 1
           /\ nResult.sent.endpoint = "search"

\* a search on a registered name whose identifier is empty returned 'not found'
C13_Witness ==
    /\ NamedOperationEnded
    /\ nCall.op = "search_database"
    /\ nCall.database_name = "blank"
    /\ nCall.database_name \in registry
    /\ nResult = Returned("not_found", 0, NoSent)

\* an update or an append has been called
WriteEnded == OperationEnded /\ nCall.op \in {"update_page", "append_block"}
\* the id the write was called with
SuppliedId == IF nCall.op = "update_page" THEN nCall.page_id ELSE nCall.block_id
\* the id holds 32 hexadecimal digits once its hyphens are removed
Normalizable == SuppliedId # <<>> /\ IsUuid(RemoveHyphens(SuppliedId))

\* C14 (as stated): update and append send only an identifier in canonical dashed form;
\* an id supplied without hyphens is normalized before the write, and an id that cannot
\* be normalized gives an error result and no remote write.
C14_OnlyCanonicalIdsAreSent ==
    WriteEnded =>
        /\ nResult.remoteCalls >= 1 => IsCanonical(nResult.sent.id)
        /\ (~Normalizable) =>
               /\ nResult.outcome = "returned"
               /\ nResult.error # "none"
               /\ nResult.remoteCalls = 0

\* C14 (amended): an id that can be normalized (without hyphens, with misplaced hyphens,
\* in upper case, in braces) is sent in canonical dashed form; an id that cannot be
\* normalized is sent to the remote store as it was supplied, in the one remote call of
\* the operation, and the result is an error only if the remote call fails.
C14_NormalizableIdsAreSentCanonicalOthersUnchanged ==
    (WriteEnded /\ nResult.remoteCalls >= 1) =>
        /\ nResult.remoteCalls = 1
        /\ Normalizable =>
               /\ IsCanonical(nResult.sent.id)
               /\ RemoveHyphens(nResult.sent.id)
                      = [i \in 1 .. 32 |-> Lower(UuidDigits(SuppliedId)[i])]
        /\ (~Normalizable) =>
               /\ nResult.sent.id = SuppliedId
               /\ nResult.error # "none" <=> nCall.remote # "ok"

\* an update called with a hyphen-less id sent the dashed id
C14_Witness ==
    /\ WriteEnded
    /\ nCall.op = "update_page"
    /\ nCall.page_id = IdCompact
    /\ nResult.remoteCalls = 1
    /\ nResult.sent.id = IdCanonical

\* an append called with an id that is too short sent that id
C14_MalformedIdIsSent ==
    /\ WriteEnded
    /\ nCall.op = "append_block"
    /\ nCall.block_id = IdShort
    /\ nResult.remoteCalls = 1
    /\ nResult.sent.id = IdShort

\* the predicates of the filter a search sent, in their order
SentFilters(sent) ==
    IF sent.filter = NoFilter THEN <<>>
    ELSE IF "and" \in DOMAIN sent.filter THEN sent.filter.and
    ELSE <<sent.filter>>

\* a search on a registered database sent its query with conditions given as an object
FilteredSearchSent ==
    /\ OperationEnded
    /\ nCall.op = "search_database"
    /\ nCall.filter_conditions.kind = "object"
    /\ nCall.database_name \in registry
    /\ nResult.remoteCalls = 1
    /\ nResult.sent.endpoint = "databases.query"

\* pairs without its i-th pair
WithoutPair(pairs, i) == SubSeq(pairs, 1, i - 1) \o SubSeq(pairs, i + 1, Len(pairs))

\* C20: for a registered schema and a condition key P the schema does not declare, the
\* filter holds the predicate {property: P, rich_text: {contains: v}} if and only if the
\* value v is a string; for any other v it holds no predicate for P; and the predicates
\* of the other keys are what they are without P.
C20_UndeclaredKeyFiltersByTextOnlyForStrings ==
    FilteredSearchSent =>
        LET pairs == nCall.filter_conditions.pairs
            filters == SentFilters(nResult.sent)
        IN \A i \in 1 .. Len(pairs) :
              pairs[i][1] \notin DOMAIN SchemaProperties(nCall.database_name) =>
                  /\ (\E j \in 1 .. Len(filters) :
                         filters[j] = Predicate(pairs[i][1], "rich_text", "contains",
                                                pairs[i][2]))
                         <=> IsStr(pairs[i][2])
                  /\ (~IsStr(pairs[i][2])) =>
                         \A j \in 1 .. Len(filters) : filters[j].property # pairs[i][1]
                  /\ SelectSeq(filters, LAMBDA f : f.property # pairs[i][1])
                         = BuildFilters(registry, nCall.database_name, nCall.query,
                                        Conditions(WithoutPair(pairs, i)))

\* a search with an undeclared key given a boolean and a declared key sent only the
\* predicate of the declared key
C20_Witness ==
    /\ FilteredSearchSent
    /\ nCall.database_name = "diary"
    /\ nCall.query = ""
    /\ nCall.filter_conditions.pairs = <<<<"Status", Bool(FALSE)>>, <<"Done", Str("a")>>>>
    /\ nResult.sent.filter = Predicate("Done", "select", "equals", Str("a"))

(***************************************************************************)
(* Claims about the stages of execute (Spec).                               *)
(***************************************************************************)
\* the selection is known to this execute
SelectionKnown == epc \in {"synth", "gather", "compose", "returned"}
                  \/ (epc = "raised" /\ failedStage # "select")
\* the selected names the loop has reached so far
ReachedNames ==
    SubSeq(selected, 1, IF dbIndex > Len(selected) THEN Len(selected) ELSE dbIndex)

\* with an empty registry no stage between selection and composition runs
EmptyRegistryGoesToComposition ==
    (SelectionKnown /\ registry = {}) =>
        /\ synthCalls = <<>>
        /\ toolRuns = 0
        /\ composeCalls = <<<<>>>>
        /\ failedStage \in {"none", "compose"}
        /\ epc = "returned" => finalResponse \in ComposerTexts

SchemaIndexes ==
    SelectSeq([i \in 1 .. Len(selected) |-> i], LAMBDA i : HasSchema(registry, selected[i]))

\* the operations of the k-th synthesized batch that carry one of the four names
BatchOperations(k) ==
    LET batch == requested[k]
        positions == SelectSeq([i \in 1 .. Len(batch) |-> i],
                               LAMBDA i : batch[i].name \in ToolNames)
    IN [j \in 1 .. Len(positions) |->
           [name |-> batch[positions[j]].name, db |-> SchemaIndexes[k], op |-> positions[j]]]

RECURSIVE OperationsFrom(_)
\* those operations, batch after batch from the k-th on
OperationsFrom(k) ==
    IF k > Len(requested) THEN <<>> ELSE BatchOperations(k) \o OperationsFrom(k + 1)

\* which operation a result given to the Composer comes from
ResultOrigin(r) == [name |-> r.name, db |-> r.db, op |-> r.op]

C16_TwoDatabases ==
    /\ epc = "returned"
    /\ Len(requested) = 2
    /\ Len(composeCalls[1]) = 2
    /\ composeCalls[1][1].db = 1
    /\ composeCalls[1][2].db = 2

\* C17: every execute that returns a reply has called add_interaction exactly once, after
\* the Composer returned and before returning, with the request's utterance and exactly
\* the text it returns, on the path without databases and on the path with databases;
\* an execute that has not returned has not called it.
C17_ReturnedReplyIsSavedOnceAsReturned ==
    /\ epc = "returned" =>
           /\ Len(composeCalls) = 1
           /\ addCalls = 1
           /\ savedWith = <<[user |-> Utterance, model |-> finalResponse]>>
    /\ epc # "returned" => (addCalls = 0 /\ savedWith = <<>>)

\* an execute that ran an operation returned the Composer's text and saved it
C17_Witness ==
    /\ epc = "returned"
    /\ selected # <<>>
    /\ allToolResults # <<>>
    /\ finalResponse = LlmReply
    /\ savedWith = <<[user |-> Utterance, model |-> LlmReply]>>

\* C18: an answer of the LLM without the expected shape (no candidates, no parts, a
\* text-only part, a function call with an unknown name, a call whose arguments are
\* missing or not accepted by the operation) yields no operation: no task is built for
\* such a call, and the operation stage never raises to the caller of execute.
C18_MalformedAnswerYieldsNoOperation ==
    /\ \A i \in 1 .. Len(tasks) : tasks[i].args = "valid"
    /\ failedStage # "tool"

\* the type the schema of the searched database declares for a condition key
DeclaredType(key) == resolve_property_type(registry, nCall.database_name, key)

\* the predicates of the sent filter that are about the property key
PredicatesOf(key) == SelectSeq(SentFilters(nResult.sent), LAMBDA f : f.property = key)

\* C21: for every condition key whose declared type in the named schema is checkbox,
\* select or status, the filter holds exactly one predicate for the key,
\* {property: key, <declared type>: {equals: raw value}}, the raw value unchanged; for a
\* key declared as date it holds the raw value verbatim under 'date' when the value is a
\* structured object, and an equality predicate on the value otherwise.
C21_DeclaredKeyGivesOnePredicateOnTheRawValue ==
    FilteredSearchSent =>
        LET pairs == nCall.filter_conditions.pairs
        IN \A i \in 1 .. Len(pairs) :
              /\ DeclaredType(pairs[i][1]) \in {"checkbox", "select", "status"} =>
                     PredicatesOf(pairs[i][1])
                         = <<Predicate(pairs[i][1], DeclaredType(pairs[i][1]), "equals",
                                       pairs[i][2])>>
              /\ (DeclaredType(pairs[i][1]) = "date" /\ IsDict(pairs[i][2])) =>
                     PredicatesOf(pairs[i][1])
                         = <<Predicate(pairs[i][1], "date", "is", pairs[i][2])>>
              /\ (DeclaredType(pairs[i][1]) = "date" /\ ~IsDict(pairs[i][2])) =>
                     PredicatesOf(pairs[i][1])
                         = <<Predicate(pairs[i][1], "date", "equals", pairs[i][2])>>

\* a search with the checkbox Done given false and the date Due given a structured
\* object sent both predicates on the raw values
C21_Witness ==
    /\ FilteredSearchSent
    /\ nCall.database_name = "todo_list"
    /\ nCall.query = ""
    /\ nCall.filter_conditions.pairs
           = <<<<"Done", Bool(FALSE)>>, <<"Due", Obj([start |-> Str("d")])>>>>
    /\ nResult.sent.filter
           = [and |-> <<Predicate("Done", "checkbox", "equals", Bool(FALSE)),
                        Predicate("Due", "date", "is", Obj([start |-> Str("d")]))>>]

\* a search with the status property given a string sent the equality predicate
C21_StatusEquals ==
    /\ FilteredSearchSent
    /\ nCall.database_name = "todo_list"
    /\ nCall.filter_conditions.pairs = <<<<"Status", Str("a")>>>>
    /\ nResult.sent.filter = Predicate("Status", "status", "equals", Str("a"))

\* a search on a registered database reached the remote store, whatever was given as
\* filter_conditions
DatabaseSearchSent ==
    /\ OperationEnded
    /\ nCall.op = "search_database"
    /\ nResult.remoteCalls = 1
    /\ nResult.sent.endpoint = "databases.query"

\* a condition that gives a predicate: a key declared checkbox, select, status or date,
\* or any other key with a string value
UsableCondition(pair) ==
    \/ DeclaredType(pair[1]) \in {"checkbox", "select", "status", "date"}
    \/ IsStr(pair[2])

\* the conditions of the call that give a predicate; none if filter_conditions is left
\* out, is no JSON text or is no JSON object
UsableConditions ==
    IF nCall.filter_conditions.kind = "object"
    THEN SelectSeq(nCall.filter_conditions.pairs, UsableCondition)
    ELSE <<>>

\* how many predicates the search built
BuiltCount == (IF nCall.query # "" THEN 1 ELSE 0) + Len(UsableConditions)

\* C22: the filter sent with a database search is absent when no predicate was built (no
\* query and no usable condition, unparseable filter_conditions included), is the single
\* predicate itself when exactly one was built, and is {and: [...]} holding every built
\* predicate exactly once when two or more were built; a search never fails because no
\* predicate was built.
C22_FilterIsAbsentSingleOrConjunction ==
    DatabaseSearchSent =>
        LET built == BuildFilters(registry, nCall.database_name, nCall.query,
                                  nCall.filter_conditions)
        IN /\ Len(built) = BuiltCount
           /\ BuiltCount = 0 =>
                  /\ nResult.sent.filter = NoFilter
                  /\ nResult.outcome = "returned"
                  /\ nResult.error # "none" <=> nCall.remote # "ok"
           /\ BuiltCount = 1 =>
                  /\ nResult.sent.filter = built[1]
                  /\ "property" \in DOMAIN nResult.sent.filter
           /\ BuiltCount >= 2 =>
                  /\ DOMAIN nResult.sent.filter = {"and"}
                  /\ nResult.sent.filter.and = built
                  /\ \A i, j \in 1 .. Len(built) : built[i] = built[j] => i = j

\* a search without a query whose filter_conditions is no JSON text sent no filter and
\* succeeded
C22_Witness ==
    /\ DatabaseSearchSent
    /\ nCall.query = ""
    /\ nCall.filter_conditions.kind = "unparseable"
    /\ nCall.remote = "ok"
    /\ nResult.sent.filter = NoFilter
    /\ nResult = Returned("none", 1, nResult.sent)

\* a search with a query and one usable condition next to an unusable one sent the
\* conjunction of the two built predicates
C22_TwoPredicates ==
    /\ DatabaseSearchSent
    /\ nCall.database_name = "diary"
    /\ nCall.query = "milk"
    /\ nCall.filter_conditions.kind = "object"
    /\ nCall.filter_conditions.pairs = <<<<"Due", Num(3)>>, <<"Done", Str("a")>>>>
    /\ nResult.sent.filter
           = [and |-> <<Predicate("Title", "title", "contains", Str("milk")),
                        Predicate("Done", "select", "equals", Str("a"))>>]

\* a create reached the remote store
CreateSent ==
    /\ OperationEnded
    /\ nCall.op = "create_page"
    /\ nResult.remoteCalls = 1

\* C23: a search with a database name and a non-empty title-search term sends a title
\* 'contains' predicate on the title property of that schema, in addition to the
\* predicates built from filter_conditions; search and create use the same property name
\* for every schema: the title-tagged property when one exists, and otherwise the same
\* default name.
C23_SearchAndCreateUseTheSameTitleProperty ==
    /\ (DatabaseSearchSent /\ nCall.query # "") =>
           /\ Head(SentFilters(nResult.sent))
                  = Predicate(SearchTitleProperty(registry, nCall.database_name), "title",
                              "contains", Str(nCall.query))
           /\ Tail(SentFilters(nResult.sent))
                  = BuildFilters(registry, nCall.database_name, "", nCall.filter_conditions)
           /\ HasTitle(SchemaProperties(nCall.database_name)) =>
                  SchemaProperties(nCall.database_name)[Head(SentFilters(nResult.sent)).property]
                      = "title"
    /\ CreateSent =>
           /\ SearchTitleProperty(registry, nCall.database_name)
                  \in DOMAIN nResult.sent.properties
           /\ nResult.sent.properties[SearchTitleProperty(registry, nCall.database_name)]
                  = Wrap("title", TextContent(Str(nCall.title)))

\* the search half of C23 holds: the title predicate is on the title-tagged property, or
\* on "Name" when the schema declares none
C23_SearchFiltersOnTheTitleProperty ==
    (DatabaseSearchSent /\ nCall.query # "") =>
        /\ Head(SentFilters(nResult.sent)).kind = "title"
        /\ Head(SentFilters(nResult.sent)).property
               = (IF HasTitle(SchemaProperties(nCall.database_name))
                  THEN FirstTitle(SchemaProperties(nCall.database_name))
                  ELSE "Name")

\* a create on a schema without a title property sent the title under the default of
\* create_page, which is not the default search_database filters on
C23_CreateUsesAnotherDefault ==
    /\ CreateSent
    /\ nCall.database_name = "untitled"
    /\ DOMAIN nResult.sent.properties = {"Namae"}
    /\ SearchTitleProperty(registry, "untitled") = "Name"

\* the properties a create was called with (none when the argument is left out)
SuppliedProperties ==
    IF nCall.properties.kind = "map" THEN nCall.properties.map ELSE <<>>

\* the property create_page puts the title under: the title-tagged property of the
\* schema, or its default name when the schema declares none
TitlePropertyOfCreate ==
    IF HasTitle(SchemaProperties(nCall.database_name))
    THEN FirstTitle(SchemaProperties(nCall.database_name))
    ELSE "Namae"

\* C24: a create that reaches the remote store sends the title argument in the title wire
\* form under the schema's title property, overriding any value properties supplies for
\* that property, and sends every other property exactly as formatProperties produced it;
\* on success it returns a success result carrying the id the store returned.
C24_CreateSendsTitleOverSuppliedProperties ==
    CreateSent =>
        LET sentProps == nResult.sent.properties
            formatted == format_properties_for_api(registry, nCall.database_name,
                                                   SuppliedProperties)
        IN /\ nResult.sent.endpoint = "pages.create"
           /\ DOMAIN sentProps = DOMAIN SuppliedProperties \cup {TitlePropertyOfCreate}
           /\ sentProps[TitlePropertyOfCreate] = Wrap("title", TextContent(Str(nCall.title)))
           /\ \A k \in DOMAIN SuppliedProperties \ {TitlePropertyOfCreate} :
                  sentProps[k] = formatted[k]
           /\ nCall.remote = "ok" =>
                  /\ nResult.outcome = "returned"
                  /\ nResult.error = "none"
                  /\ nResult.id = NewPageId
           /\ nCall.remote # "ok" => nResult.id = NoId

\* a create whose properties give another value for the title property sent the title
\* argument and returned the id of the new page
C24_Witness ==
    /\ CreateSent
    /\ nCall.database_name = "todo_list"
    /\ nCall.properties = Properties([k \in {"Name"} |-> Str("a")])
    /\ nCall.remote = "ok"
    /\ nResult.sent.properties = [k \in {"Name"} |-> Wrap("title", TextContent(Str("t")))]
    /\ nResult.id = NewPageId

\* a create with another property sent it formatted by its declared type, next to the title
C24_OtherPropertyFormatted ==
    /\ CreateSent
    /\ nCall.database_name = "diary"
    /\ nCall.properties = Properties([k \in {"Done"} |-> Str("a")])
    /\ DOMAIN nResult.sent.properties = {"Done", "Title"}
    /\ nResult.sent.properties["Done"] = Wrap("select", NameObject(Str("a")))

(***************************************************************************)
(* Claims about the reply and the history of a request (Spec).             *)
(***************************************************************************)
\* the last turn of the stored window
LastStored == store.history[Len(store.history)]

\* C25: generate_response never returns an empty text: when the LLM returns a missing or
\* an empty text it returns the fixed apology string, and that string is what execute
\* returns and what it records in memory.
C25_EmptyAnswerBecomesTheApology ==
    epc = "returned" =>
        /\ finalResponse \notin {EmptyText, NoneText, NoText}
        /\ responseText \in {EmptyText, NoneText} =>
               /\ finalResponse = ApologyText
               /\ savedWith = <<[user |-> Utterance, model |-> ApologyText]>>
               /\ store # storeAtStart =>
                      (store.exists /\ store.history # <<>>
                       /\ LastStored = ModelTurn(ApologyText))
        /\ responseText \notin {EmptyText, NoneText} => finalResponse = responseText

\* the LLM answered without a text: execute returned the apology and stored it as the
\* model turn
C25_Witness ==
    /\ epc = "returned"
    /\ responseText = NoneText
    /\ finalResponse = ApologyText
    /\ store # storeAtStart
    /\ LastStored = ModelTurn(ApologyText)

\* C26: a storage error of the conversation memory is never raised to the caller: when
\* the session store fails or is unavailable, get_recent_history returns the empty
\* sequence, whatever the document holds, and add_interaction returns and leaves the
\* stored window as it was; neither writes anything.
C26_StorageErrorIsSwallowed ==
    [][/\ lastOp' = "read_error" => (readResult' = <<>> /\ store' = store)
       /\ lastOp' = "add_error" => (store' = store /\ version' = version
                                    /\ addedAt' = addedAt)]_vars

\* a read failed on a document whose window is live: it returned nothing and the
\* document is as the last add_interaction wrote it
C26_Witness ==
    /\ lastOp = "read_error"
    /\ readResult = <<>>
    /\ calls >= 1
    /\ get_recent_history(store, readLimit, now) # <<>>

\* a failed add_interaction after a stored one left the stored window as it was
C26_FailedAddKeepsWindow ==
    /\ lastOp = "add_error"
    /\ calls = 2
    /\ addedAt[1] # NoTimestamp
    /\ addedAt[2] = NoTimestamp
    /\ store.history # <<>>

\* how many times select_databases has been called for the event: once by the execute
\* under wait_for, and once more by the execute called after the timeout
SelectCallsOfEvent == (IF epc # "idle" THEN 1 ELSE 0) + (IF cancelled THEN 1 ELSE 0)

\* the pushes of the event that reached the user
PushesDelivered ==
    SelectSeq(delivered, LAMBDA m : m.via = "push" /\ m.ok)

\* C27: for one LINE text-message event whose processing exceeds the reply deadline,
\* processing continues rather than starting again: database selection, synthesis and
\* each remote-store operation are carried out at most once for the event, the
\* interaction is recorded at most once, and exactly one final message (the answer or an
\* error text) is pushed to the user after completion.
C27_TimedOutEventIsProcessedOnce ==
    path = "line" =>
        /\ SelectCallsOfEvent <= 1
        /\ ~(opsBeforeCancel /\ toolRuns > 0)
        /\ Len(store.history) <= Len(storeAtStart.history) + 2
        /\ (cancelled /\ lpc = "done") => Len(PushesDelivered) = 1

\* after the timeout execute has been called a second time and has started executor
\* operations, as the cancelled execute had done
C27_OperationsStartedTwice ==
    /\ path = "line"
    /\ cancelled
    /\ lpc = "exec2"
    /\ opsBeforeCancel
    /\ toolRuns > 0

\* the interaction of a timed-out event is recorded at most once
C27_RecordedAtMostOnce ==
    path = "line" => Len(store.history) <= Len(storeAtStart.history) + 2

\* what get_recent_history gave this execute: the live window of the session, or
\* nothing when the read failed
HistoryAsRead ==
    {<<>>, get_recent_history(storeAtStart, SESSION_HISTORY_LIMIT_MINUTES, now)}

\* C28: during one request the history list returned by get_recent_history is passed with
\* the same length and content to the Selector, to every Synthesizer call and to the
\* Composer, and is unchanged when execute returns: no stage of the pipeline appends to
\* it or alters it.
C28_NoStageChangesTheHistory ==
    epc # "idle" => history \in HistoryAsRead

\* the Selector and the Synthesizer are given the list as it was read
C28_UnchangedUntilComposition ==
    epc \in {"select", "synth", "gather"} => history \in HistoryAsRead

\* execute returned and the list it had read holds the turns generate_response appended
C28_ComposerAppendedToTheHistory ==
    /\ epc = "returned"
    /\ allToolResults # <<>>
    /\ history = PriorWindow \o <<UserTurn(Utterance), FunctionTurn(allToolResults)>>
    /\ store = storeAtStart

(***************************************************************************)
(* Claims about the stored window (SpecMem).                                *)
(***************************************************************************)
\* h consists of whole interactions: a user turn, then the model turn recorded with it
WholeInteractions(h) ==
    /\ Len(h) % 2 = 0
    /\ \A i \in 1 .. Len(h) :
          IF i % 2 = 1
          THEN IsTurnOf(h[i], "user")
          ELSE /\ IsTurnOf(h[i], "model")
               /\ TurnCall(h[i]) = TurnCall(h[i - 1])

\* every turn of the window was recorded by an add_interaction call of this behaviour,
\* as in a session that started empty or absent
RecordedByCalls(h) ==
    \A i \in 1 .. Len(h) : IsValidItem(h[i]) /\ TurnCall(h[i]) >= 1

\* C29: after any sequence of add_interaction calls on a session that starts empty or
\* absent, the stored window consists of whole interactions, for every configured maximum
\* length: its length is even, its turns alternate user, model beginning with a user
\* turn, and each model turn is the reply recorded with the user turn just before it.
C29_WindowHoldsWholeInteractions ==
    (lastOp = "add" /\ RecordedByCalls(store.history)) => WholeInteractions(store.history)

\* with an even maximum length the window holds whole interactions
C29_EvenMaximumKeepsWholeInteractions ==
    (lastOp = "add" /\ RecordedByCalls(store.history) /\ maxHistoryLength % 2 = 0)
        => WholeInteractions(store.history)

\* with a maximum of three the window begins with the model turn of a cut interaction
C29_OddMaximumCutsAnInteraction ==
    /\ lastOp = "add"
    /\ maxHistoryLength = 3
    /\ store.history = <<ModelTurn(ModelResponse(1)), UserTurn(UserMessage(2)),
                         ModelTurn(ModelResponse(2))>>

(***************************************************************************)
(* Claims about update_page (SpecNotion).                                   *)
(***************************************************************************)
\* an update reached the remote store
UpdateSent ==
    /\ OperationEnded
    /\ nCall.op = "update_page"
    /\ nResult.remoteCalls = 1

\* the positions in the registry of the schemas that declare the property key
DeclaringPositions(key) ==
    {i \in 1 .. Len(RegistryOrder) :
        RegistryOrder[i] \in registry /\ key \in DOMAIN SchemaProperties(RegistryOrder[i])}

\* the type the first of these schemas declares for key
FirstDeclaredType(key) ==
    LET first == CHOOSE i \in DeclaringPositions(key) : \A j \in DeclaringPositions(key) : i <= j
    IN SchemaProperties(RegistryOrder[first])[key]

\* C30: update_page formats each property by the type declared in the first schema, in
\* registry order, that declares a property of that name, and passes a property that no
\* schema declares through unchanged; the wire form of one property does not depend on
\* the other properties of the same call.
C30_UpdateFormatsByFirstDeclaringSchema ==
    UpdateSent =>
        LET properties == nCall.properties.map
            sentProps == nResult.sent.properties
        IN /\ DOMAIN sentProps = DOMAIN properties
           /\ \A k \in DOMAIN properties :
                  /\ DeclaringPositions(k) # {} =>
                         sentProps[k] = FormatValue(FirstDeclaredType(k), properties[k])
                  /\ DeclaringPositions(k) = {} => sentProps[k] = properties[k]
                  /\ sentProps[k]
                         = update_page(registry, notionClient, nCall.page_id,
                                       Properties([x \in {k} |-> properties[k]]),
                                       nCall.remote).sent.properties[k]

\* an update of Done, declared checkbox by the first schema and select by the second,
\* and of a property no schema declares sent a checkbox and the other value unchanged
C30_Witness ==
    /\ UpdateSent
    /\ registry # {}
    /\ nCall.properties = Properties([Done |-> Str("a"), Other |-> Num(3)])
    /\ nResult.sent.properties
           = [Done |-> Wrap("checkbox", Bool(TRUE)), Other |-> Num(3)]

====
